---- MODULE Spec2Model ----
(***************************************************************************)
(* State-machine model of the Ansible modules pam_limits, deploy_helper,   *)
(* junos_template and pkg5                                                 *)
(* (t0mk/ansible).  Strings are sequences of one-character strings, so     *)
(* that parsing (whitespace collapsing, splitting, int()) and formatting   *)
(* (str(), tab-joined lines) are computed and not assumed.                 *)
(*                                                                         *)
(* pam_limits.py line 143 carries a stray indentation; the model reads the *)
(* statement as the plain assignment it is in sequence with its neighbours.*)
(***************************************************************************)
EXTENDS Integers, Sequences, FiniteSets, TLC

VARIABLES
  confState,   \* pam_limits: "ok" | "ro" | "missing": the file at limits_conf
  conf,        \* pam_limits: the bytes of the file at limits_conf
  bak,         \* pam_limits: backup copies made by backup_local (sequence of contents)
  ppc,         \* pam_limits: per process, the position in main()
  pargs,       \* pam_limits: per process, module.params
  fin,         \* pam_limits: per process, the lines of f not yet iterated
  nf,          \* pam_limits: per process, the bytes written to the scratch file
  found,       \* pam_limits: per process, main's local found
  new_value,   \* pam_limits: per process, main's local new_value (a str or an int)
  changed,     \* pam_limits: per process, main's local changed
  presult,     \* pam_limits: per process, what the run reported
  accessed,    \* pam_limits: per process, the kinds of file access made in this run
  orig,        \* pam_limits: per process, the bytes at limits_conf when the run started
  runs,        \* pam_limits: per process, the number of the current run
  prev,        \* pam_limits: per process, the outcome of the previous run
  backup_file, \* pam_limits: per process, main's local backup_file (0 unbound, else the n-th copy)
  res_args,    \* pam_limits: per process, the result handed to exit_json
  seen,        \* pam_limits: per process, the bytes of the file f that open() returned
  fs,          \* deploy_helper: the filesystem tree under the project path
  clock,       \* deploy_helper: the filesystem's time, stamped on changed inodes
  dargs,       \* deploy_helper: module.params and module.check_mode
  dpc,         \* deploy_helper: the position in main()
  changes,     \* deploy_helper: main's local changes
  dresult,     \* deploy_helper: what the run reported
  dops,        \* deploy_helper: the filesystem calls that mutated something in this run
  dstart,      \* deploy_helper: the tree when the run started
  dclean,      \* deploy_helper: the tree when the run started cleaning
  druns,       \* deploy_helper: the number of the current run
  dprev,       \* deploy_helper: the outcome of the previous run
  ddry,        \* deploy_helper: the outcome of the check-mode run made before this run
  device,      \* junos_template: the running configuration of the device (module.config)
  jargs,       \* junos_template: module.params and module.check_mode
  jpc,         \* junos_template: the position in main()
  commands,    \* junos_template: main's local commands
  config,      \* junos_template: main's local config
  candidate,   \* junos_template: main's local candidate
  jresult,     \* junos_template: the result handed to exit_json
  pushed,      \* junos_template: the command lists handed to module.configure in this run
  jdry,        \* junos_template: the result of the check-mode run made before this run
  installed,   \* pkg5: per package, what the image holds ("no", "old", "latest")
  kargs,       \* pkg5: module.params
  kpc,         \* pkg5: the position in main() and ensure()
  kstate,      \* pkg5: ensure's parameter state
  to_modify,   \* pkg5: ensure's local to_modify
  response,    \* pkg5: ensure's local response
  cmdlog,      \* pkg5: the modifying pkg commands run in this run
  kstart,      \* pkg5: the image when the run started
  kruns,       \* pkg5: the number of the current run
  kprev        \* pkg5: the outcome of the previous run

pamVars == <<confState, conf, bak, ppc, pargs, fin, nf, found, new_value,
             changed, presult, accessed, orig, runs, prev, backup_file, res_args, seen>>

dhVars == <<fs, clock, dargs, dpc, changes, dresult, dops, dstart, dclean, druns, dprev, ddry>>

junosVars == <<device, jargs, jpc, commands, config, candidate, jresult, pushed, jdry>>

pkgVars == <<installed, kargs, kpc, kstate, to_modify, response, cmdlog, kstart, kruns, kprev>>

vars == <<pamVars, dhVars, junosVars, pkgVars>>

(* ------------------------------ bounds --------------------------------- *)
MaxLines == 2
MaxRuns == 2

(* ------------------------------ strings -------------------------------- *)
Digits == {"0", "1", "2", "3", "4", "5", "6", "7", "8", "9"}

DigitVal(c) ==
  CASE c = "0" -> 0 [] c = "1" -> 1 [] c = "2" -> 2 [] c = "3" -> 3
    [] c = "4" -> 4 [] c = "5" -> 5 [] c = "6" -> 6 [] c = "7" -> 7
    [] c = "8" -> 8 [] c = "9" -> 9

DigitChar(n) ==
  CASE n = 0 -> "0" [] n = 1 -> "1" [] n = 2 -> "2" [] n = 3 -> "3"
    [] n = 4 -> "4" [] n = 5 -> "5" [] n = 6 -> "6" [] n = 7 -> "7"
    [] n = 8 -> "8" [] n = 9 -> "9"

\* str.isdigit(): non-empty and every character a decimal digit
IsDigit(s) == Len(s) > 0 /\ \A i \in 1..Len(s) : s[i] \in Digits

\* int(s) for a digit string
RECURSIVE ParseInt(_)
ParseInt(s) ==
  IF Len(s) = 0 THEN 0
  ELSE 10 * ParseInt(SubSeq(s, 1, Len(s) - 1)) + DigitVal(s[Len(s)])

\* str(n) for a non-negative int
RECURSIVE Str(_)
Str(n) == IF n < 10 THEN <<DigitChar(n)>> ELSE Str(n \div 10) \o <<DigitChar(n % 10)>>

Unlimited == <<"u", "n", "l", "i", "m", "i", "t", "e", "d">>
Infinity == <<"i", "n", "f", "i", "n", "i", "t", "y">>
MinusOne == <<"-", "1">>

\* the list ['unlimited', 'infinity', '-1']
UnlimitedWords == {Unlimited, Infinity, MinusOne}

\* the characters \s matches among those the model uses
Whitespace == {" ", "\t", "\n"}

\* re.sub(r'\s+', ' ', line): every run of whitespace becomes one space
RECURSIVE SubSpace(_)
SubSpace(s) ==
  IF Len(s) = 0 THEN <<>>
  ELSE IF s[1] \in Whitespace
       THEN IF Len(s) > 1 /\ s[2] \in Whitespace
            THEN SubSpace(Tail(s))
            ELSE <<" ">> \o SubSpace(Tail(s))
       ELSE <<s[1]>> \o SubSpace(Tail(s))

\* str.strip()
RECURSIVE LStrip(_)
LStrip(s) == IF Len(s) > 0 /\ s[1] \in Whitespace THEN LStrip(Tail(s)) ELSE s

RECURSIVE RStrip(_)
RStrip(s) ==
  IF Len(s) > 0 /\ s[Len(s)] \in Whitespace THEN RStrip(SubSeq(s, 1, Len(s) - 1)) ELSE s

Strip(s) == LStrip(RStrip(s))

\* str.split(' '): the pieces between single spaces
RECURSIVE SplitFrom(_, _)
SplitFrom(s, cur) ==
  IF Len(s) = 0 THEN <<cur>>
  ELSE IF s[1] = " " THEN <<cur>> \o SplitFrom(Tail(s), <<>>)
       ELSE SplitFrom(Tail(s), Append(cur, s[1]))

Split(s) == SplitFrom(s, <<>>)

\* iteration over a file object: the pieces ending in "\n", and an unterminated rest
RECURSIVE LinesFrom(_, _)
LinesFrom(s, cur) ==
  IF Len(s) = 0 THEN (IF Len(cur) = 0 THEN <<>> ELSE <<cur>>)
  ELSE IF s[1] = "\n" THEN <<Append(cur, "\n")>> \o LinesFrom(Tail(s), <<>>)
       ELSE LinesFrom(Tail(s), Append(cur, s[1]))

FileLines(data) == LinesFrom(data, <<>>)

(* ---------------------------- pam_limits ------------------------------- *)
PamProcs == {1, 2}

\* a Python value that is a str or an int
PyStr(s) == [t |-> "str", s |-> s, n |-> 0]
PyInt(n) == [t |-> "int", s |-> <<>>, n |-> n]

\* str(new_value)
PyStrOf(v) == IF v.t = "int" THEN Str(v.n) ELSE v.s

\* new_value != actual_value, actual_value a str: an int never equals a str
PyNeStr(v, s) == v.t = "int" \/ v.s # s

Max(a, b) == IF a >= b THEN a ELSE b
Min(a, b) == IF a <= b THEN a ELSE b

\* value in ['unlimited', 'infinity', '-1'] or value.isdigit()
ValueOk(v) == v \in UnlimitedWords \/ IsDigit(v)

\* actual_value in ['unlimited', 'infinity', '-1'] or actual_value.isdigit()
ActualValueOkLax(v) == Len(v) > 0
ActualValueOk(v) == v \in UnlimitedWords \/ IsDigit(v)

\* the two argument checks; "" when both pass
ArgErrorNoExclusive(a) == IF ~ValueOk(a.value) THEN "bad_value" ELSE ""
ArgError(a) ==
  IF a.use_max /\ a.use_min THEN "min_max"
  ELSE IF ~ValueOk(a.value) THEN "bad_value" ELSE ""

\* the use_max block
AfterUseMax(value, actual, nv) ==
  IF IsDigit(value) /\ IsDigit(actual)
  THEN PyInt(Max(ParseInt(value), ParseInt(actual)))
  ELSE IF actual \in UnlimitedWords THEN PyStr(actual) ELSE PyStr(value)

\* the use_min block
AfterUseMinSym(value, actual, nv) ==
  IF IsDigit(value) /\ IsDigit(actual)
  THEN PyInt(Min(ParseInt(value), ParseInt(actual)))
  ELSE IF actual \in UnlimitedWords THEN PyStr(actual) ELSE PyStr(value)
AfterUseMin(value, actual, nv) ==
  IF IsDigit(value) /\ IsDigit(actual)
  THEN PyInt(Min(ParseInt(value), ParseInt(actual)))
  ELSE IF value \in UnlimitedWords THEN PyStr(actual) ELSE PyStr(value)

\* new_value after the use_max and use_min blocks
Reconcile(a, actual, nv) ==
  LET m == IF a.use_max THEN AfterUseMax(a.value, actual, nv) ELSE nv
  IN IF a.use_min THEN AfterUseMin(a.value, actual, m) ELSE m

\* the new line joined with spaces where the code joins with tabs
NewLimitSpaced(a, nv) ==
  a.domain \o <<" ">> \o a.limit_type \o <<" ">> \o a.limit_item \o <<" ">>
    \o PyStrOf(nv) \o <<"\n">>

\* domain + "\t" + limit_type + "\t" + limit_item + "\t" + str(new_value) + "\n"
NewLimit(a, nv) ==
  a.domain \o <<"\t">> \o a.limit_type \o <<"\t">> \o a.limit_item \o <<"\t">>
    \o PyStrOf(nv) \o <<"\n">>

\* one iteration of "for line in f": what is written, or the failure
LineResult(a, line, nv) ==
  LET newline == Strip(SubSpace(line))
      line_fields == Split(newline)
      pass == [fail |-> FALSE, out |-> line, found |-> FALSE, nv |-> nv, changed |-> FALSE]
  IN IF line[1] = "#" THEN pass
     ELSE IF Len(newline) = 0 THEN pass
     ELSE IF Len(line_fields) # 4 THEN pass
     ELSE LET actual_value == line_fields[4] IN
          IF ~ActualValueOk(actual_value)
          THEN [pass EXCEPT !.fail = TRUE]
          ELSE IF line_fields[1] = a.domain /\ line_fields[2] = a.limit_type
                  /\ line_fields[3] = a.limit_item
               THEN IF a.value = actual_value
                    THEN [pass EXCEPT !.found = TRUE]
                    ELSE LET v == Reconcile(a, actual_value, nv) IN
                         IF PyNeStr(v, actual_value)
                         THEN [fail |-> FALSE, out |-> NewLimit(a, v), found |-> TRUE,
                               nv |-> v, changed |-> TRUE]
                         ELSE [fail |-> FALSE, out |-> line, found |-> TRUE,
                               nv |-> v, changed |-> FALSE]
               ELSE pass

\* nf.write(text): the scratch file grows, the file at limits_conf is not touched
InPlaceWrite(p, text) ==
  /\ conf' = conf \o text
  /\ UNCHANGED nf
ScratchWrite(p, text) ==
  /\ nf' = [nf EXCEPT ![p] = @ \o text]
  /\ UNCHANGED conf

\* os.path.isfile / os.access, lines 124-128
PamProbe(p) ==
  /\ ppc[p] = "start"
  /\ accessed' = [accessed EXCEPT ![p] = @ \cup {"probe"}]
  /\ IF confState = "ok"
     THEN ppc' = [ppc EXCEPT ![p] = "validate"] /\ UNCHANGED presult
     ELSE /\ ppc' = [ppc EXCEPT ![p] = "failed"]
          /\ presult' = [presult EXCEPT ![p] =
                           IF confState = "ro" THEN "not_writable" ELSE "not_visible"]
  /\ UNCHANGED <<confState, conf, bak, pargs, fin, nf, found, new_value, changed,
                 orig, runs, prev, backup_file, res_args, seen, dhVars, junosVars, pkgVars>>

\* the use_max/use_min and value checks, lines 130-134
PamValidate(p) ==
  /\ ppc[p] = "validate"
  /\ IF ArgError(pargs[p]) = ""
     THEN ppc' = [ppc EXCEPT ![p] = "backup"] /\ UNCHANGED presult
     ELSE /\ ppc' = [ppc EXCEPT ![p] = "failed"]
          /\ presult' = [presult EXCEPT ![p] = ArgError(pargs[p])]
  /\ UNCHANGED <<confState, conf, bak, pargs, fin, nf, found, new_value, changed,
                 accessed, orig, runs, prev, backup_file, res_args, seen,
                 dhVars, junosVars, pkgVars>>

\* module.backup_local(limits_conf): a copy of the file beside it
BackupLocal(p) ==
  /\ bak' = Append(bak, conf)
  /\ accessed' = [accessed EXCEPT ![p] = @ \cup {"backup"}]

\* lines 137-138 without the call: the run goes on with no copy made
PamBackupSkipped(p) ==
  /\ ppc[p] = "backup"
  /\ ppc' = [ppc EXCEPT ![p] = "open"]
  /\ UNCHANGED <<confState, conf, bak, pargs, fin, nf, found, new_value, changed,
                 presult, accessed, orig, runs, prev, backup_file, res_args,
                 seen, dhVars, junosVars, pkgVars>>

\* lines 137-138: backup_file is the path of the copy, here its number
PamBackup(p) ==
  /\ ppc[p] = "backup"
  /\ IF pargs[p].backup
     THEN BackupLocal(p) /\ backup_file' = [backup_file EXCEPT ![p] = Len(bak) + 1]
     ELSE UNCHANGED <<bak, accessed, backup_file>>
  /\ ppc' = [ppc EXCEPT ![p] = "open"]
  /\ UNCHANGED <<confState, conf, pargs, fin, nf, found, new_value, changed,
                 presult, orig, runs, prev, res_args, seen, dhVars, junosVars, pkgVars>>

\* f = open(limits_conf, 'r'); nf = NamedTemporaryFile; found, new_value: lines 143-148
PamOpen(p) ==
  /\ ppc[p] = "open"
  /\ fin' = [fin EXCEPT ![p] = FileLines(conf)]
  /\ nf' = [nf EXCEPT ![p] = <<>>]
  /\ found' = [found EXCEPT ![p] = FALSE]
  /\ new_value' = [new_value EXCEPT ![p] = PyStr(pargs[p].value)]
  /\ accessed' = [accessed EXCEPT ![p] = @ \cup {"read"}]
  /\ seen' = [seen EXCEPT ![p] = conf]
  /\ ppc' = [ppc EXCEPT ![p] = "loop"]
  /\ UNCHANGED <<confState, conf, bak, pargs, changed, presult, orig, runs, prev,
                 backup_file, res_args, dhVars, junosVars, pkgVars>>

\* one iteration of the loop, lines 150-211
PamLine(p) ==
  /\ ppc[p] = "loop"
  /\ fin[p] # <<>>
  /\ LET r == LineResult(pargs[p], Head(fin[p]), new_value[p])
     IN IF r.fail
        THEN /\ ppc' = [ppc EXCEPT ![p] = "failed"]
             /\ presult' = [presult EXCEPT ![p] = "corrupt"]
             /\ UNCHANGED <<conf, fin, nf, found, new_value, changed>>
        ELSE /\ ScratchWrite(p, r.out)
             /\ fin' = [fin EXCEPT ![p] = Tail(@)]
             /\ found' = [found EXCEPT ![p] = @ \/ r.found]
             /\ new_value' = [new_value EXCEPT ![p] = r.nv]
             /\ changed' = [changed EXCEPT ![p] = @ \/ r.changed]
             /\ UNCHANGED <<ppc, presult>>
  /\ UNCHANGED <<confState, bak, pargs, accessed, orig, runs, prev, backup_file, res_args,
                 seen, dhVars, junosVars, pkgVars>>

\* lines 213-220 with line 214 (changed = True) left out
PamFinishSilent(p) ==
  /\ ppc[p] = "loop"
  /\ fin[p] = <<>>
  /\ IF ~found[p]
     THEN ScratchWrite(p, NewLimit(pargs[p], new_value[p]))
     ELSE UNCHANGED <<conf, nf>>
  /\ ppc' = [ppc EXCEPT ![p] = "move"]
  /\ UNCHANGED <<confState, bak, pargs, fin, found, new_value, changed, presult, accessed,
                 orig, runs, prev, backup_file, res_args, seen, dhVars, junosVars, pkgVars>>

\* after the loop: the append of a missing entry, f.close(), nf.close(): lines 213-220
PamFinish(p) ==
  /\ ppc[p] = "loop"
  /\ fin[p] = <<>>
  /\ IF ~found[p]
     THEN /\ ScratchWrite(p, NewLimit(pargs[p], new_value[p]))
          /\ changed' = [changed EXCEPT ![p] = TRUE]
     ELSE UNCHANGED <<conf, nf, changed>>
  /\ ppc' = [ppc EXCEPT ![p] = "move"]
  /\ UNCHANGED <<confState, bak, pargs, fin, found, new_value, presult, accessed,
                 orig, runs, prev, backup_file, res_args, seen, dhVars, junosVars, pkgVars>>

\* no backup_file key in the result, or backup_file not bound yet
NoBackupFile == 0

NoResArgs == [changed |-> FALSE, backup_file |-> NoBackupFile]

\* module.atomic_move(nf.name, f.name): the scratch file is renamed over limits_conf
AtomicMove(p) ==
  /\ conf' = nf[p]
  /\ accessed' = [accessed EXCEPT ![p] = @ \cup {"write"}]

\* lines 223-232
PamMove(p) ==
  /\ ppc[p] = "move"
  /\ AtomicMove(p)
  /\ ppc' = [ppc EXCEPT ![p] = "done"]
  /\ presult' = [presult EXCEPT ![p] = "ok"]
  /\ res_args' = [res_args EXCEPT ![p] =
                    [changed |-> changed[p],
                     backup_file |-> IF pargs[p].backup THEN backup_file[p] ELSE NoBackupFile]]
  /\ UNCHANGED <<confState, bak, pargs, fin, nf, found, new_value, changed,
                 orig, runs, prev, backup_file, seen, dhVars, junosVars, pkgVars>>

\* the positions between the opening of the scratch file and the rename
PamRunning == {"loop", "move"}

\* the process is killed between two steps
PamCrash(p) ==
  /\ ppc[p] \in PamRunning
  /\ ppc' = [ppc EXCEPT ![p] = "crashed"]
  /\ UNCHANGED <<confState, conf, bak, pargs, fin, nf, found, new_value, changed,
                 presult, accessed, orig, runs, prev, backup_file, res_args, seen,
                 dhVars, junosVars, pkgVars>>

\* the same task is run again after a successful run: main() from its first line
PamRerun(p) ==
  /\ ppc[p] = "done"
  /\ runs[p] < MaxRuns
  /\ prev' = [prev EXCEPT ![p] = [has |-> TRUE, changed |-> changed[p], conf |-> conf]]
  /\ runs' = [runs EXCEPT ![p] = @ + 1]
  /\ ppc' = [ppc EXCEPT ![p] = "start"]
  /\ changed' = [changed EXCEPT ![p] = FALSE]
  /\ presult' = [presult EXCEPT ![p] = "none"]
  /\ accessed' = [accessed EXCEPT ![p] = {}]
  /\ orig' = [orig EXCEPT ![p] = conf]
  /\ fin' = [fin EXCEPT ![p] = <<>>]
  /\ nf' = [nf EXCEPT ![p] = <<>>]
  /\ found' = [found EXCEPT ![p] = FALSE]
  /\ new_value' = [new_value EXCEPT ![p] = PyStr(pargs[p].value)]
  /\ backup_file' = [backup_file EXCEPT ![p] = NoBackupFile]
  /\ res_args' = [res_args EXCEPT ![p] = NoResArgs]
  /\ seen' = [seen EXCEPT ![p] = <<>>]
  /\ UNCHANGED <<confState, conf, bak, pargs, dhVars, junosVars, pkgVars>>

(* inputs *)
A_domain == <<"j">>
A_type == <<"-">>
A_item == <<"a", "s">>

ArgValues ==
  {<<"5">>, <<"0", "7">>, Unlimited, MinusOne, <<"x">>}

PamArgs ==
  { [domain |-> A_domain, limit_type |-> A_type, limit_item |-> A_item,
     value |-> v, use_max |-> mx, use_min |-> mn, backup |-> b] :
      v \in ArgValues, mx \in BOOLEAN, mn \in BOOLEAN, b \in BOOLEAN }

\* lines of a limits file, without their line ends
LinePalette ==
  { <<"j", " ", "-", " ", "a", "s", " ", "5">>,
    <<"j", "\t", "-", "\t", "a", "s", "\t", "7">>,
    <<"j", " ", " ", "-", " ", "a", "s", " ">> \o Unlimited,
    <<"j", " ", "-", " ", "a", "s">>,
    <<"b", " ", "-", " ", "a", "s", " ", "5">>,
    <<"b", " ", "-", " ", "a", "s", " ", "x">>,
    <<"#", "c">>,
    <<>> }

RECURSIVE JoinLines(_)
JoinLines(ls) ==
  IF Len(ls) = 0 THEN <<>>
  ELSE IF Len(ls) = 1 THEN Head(ls)
  ELSE Head(ls) \o <<"\n">> \o JoinLines(Tail(ls))

LineSeqs == UNION { [1..n -> LinePalette] : n \in 0..MaxLines }

\* files of at most MaxLines lines, the last one with or without its line end
PamFiles ==
  { JoinLines(ls) \o <<"\n">> : ls \in LineSeqs \ {<<>>} }
    \cup { JoinLines(ls) : ls \in LineSeqs }

NoPrev == [has |-> FALSE, changed |-> FALSE, conf |-> <<>>]

\* two tasks on one host at a time: the second one manages the key b - as
B_domain == <<"b">>

PairValues == {<<"5">>, <<"0", "7">>}

PairArgs ==
  { [p \in PamProcs |->
       [domain |-> IF p = 1 THEN A_domain ELSE B_domain, limit_type |-> A_type,
        limit_item |-> A_item, value |-> IF p = 1 THEN v ELSE w,
        use_max |-> FALSE, use_min |-> FALSE, backup |-> FALSE]] :
      v \in PairValues, w \in PairValues }

PairLines ==
  { <<"j", " ", "-", " ", "a", "s", " ", "5">>,
    <<"b", " ", "-", " ", "a", "s", " ", "5">>,
    <<"#", "c">> }

PairLineSeqs == UNION { [1..n -> PairLines] : n \in 0..MaxLines }

PairFiles ==
  { JoinLines(ls) \o <<"\n">> : ls \in PairLineSeqs \ {<<>>} }
    \cup { JoinLines(ls) : ls \in PairLineSeqs }


(* --------------------------- deploy_helper ----------------------------- *)
\* release folder names: folder r was created at time r; NoRelease stands for
\* the empty release parameter
NRel == 3
Releases == 1..NRel
NoRelease == 0
Born(r) == r

NoEntry == [kind |-> "absent", marker |-> FALSE, ctime |-> 0]
NoLink == [kind |-> "absent", target |-> NoRelease]

\* the tree after rmtree of the project path, or before it was ever made
EmptyFs ==
  [project |-> "absent", releases |-> "absent", shared |-> "absent",
   current |-> NoLink, rel |-> [r \in Releases |-> NoEntry]]

\* os.path.getctime of a release folder: the time its inode last changed
GetCtime(f, r) == f.rel[r].ctime

\* releases.sort(key=getctime, reverse=True)
RECURSIVE SortByCtimeDesc(_, _)
SortByCtimeDesc(f, S) ==
  IF S = {} THEN <<>>
  ELSE LET m == CHOOSE r \in S : \A q \in S : GetCtime(f, q) <= GetCtime(f, r)
       IN <<m>> \o SortByCtimeDesc(f, S \ {m})

\* releases[keep_releases:], a Python slice
SliceFrom(seq, k) ==
  LET start == IF k >= 0 THEN Min(k, Len(seq)) ELSE Max(Len(seq) + k, 0)
  IN SubSeq(seq, start + 1, Len(seq))

Range(seq) == {seq[i] : i \in 1..Len(seq)}

\* os.listdir(releases_path) filtered by os.path.isdir
ReleaseDirs(f) == {r \in Releases : f.rel[r].kind = "dir"}

\* the releases whose folder holds the unfinished_filename file
UnfinishedBuilds(f) == {r \in Releases : f.rel[r].kind = "dir" /\ f.rel[r].marker}

\* set_directory_attributes_if_different(file_args, changed) with no
\* attribute requested: changed as it was passed
SetDirectoryAttributesIfDifferent(c) == c

\* the value create_path returns for an absent path: changed (True) plus the
\* attribute call's result
CreatedCount == 1 + (IF SetDirectoryAttributesIfDifferent(TRUE) THEN 1 ELSE 0)

DhGoto(l) == dpc' = l
DhFail(msg) == dpc' = "failed" /\ dresult' = [dresult EXCEPT !.msg = msg]
DhRaise(msg) == dpc' = "crashed" /\ dresult' = [dresult EXCEPT !.msg = msg]

\* the dispatch on state with query taken into the branch of present
DhStartQueryAsPresent ==
  /\ dpc = "start"
  /\ CASE dargs.state \in {"query", "present"} -> DhGoto("p_check") /\ UNCHANGED dresult
       [] dargs.state = "finalize" ->
            IF dargs.release = NoRelease THEN DhFail("release_required")
            ELSE IF dargs.keep_releases <= 0 THEN DhFail("keep_releases")
            ELSE DhGoto("f_unfinished") /\ UNCHANGED dresult
       [] dargs.state = "clean" -> DhGoto("c_builds") /\ UNCHANGED dresult
       [] dargs.state = "absent" -> DhGoto("a_delete") /\ UNCHANGED dresult
  /\ dclean' = (IF dargs.state = "clean" THEN fs ELSE dclean)
  /\ UNCHANGED <<fs, clock, dargs, changes, dops, dstart, druns, dprev, ddry,
                 pamVars, junosVars, pkgVars>>

\* DeployHelper(module), gather_facts and the dispatch on state
DhStart ==
  /\ dpc = "start"
  /\ CASE dargs.state = "query" -> DhGoto("exit") /\ UNCHANGED dresult
       [] dargs.state = "present" -> DhGoto("p_check") /\ UNCHANGED dresult
       [] dargs.state = "finalize" ->
            IF dargs.release = NoRelease THEN DhFail("release_required")
            ELSE IF dargs.keep_releases <= 0 THEN DhFail("keep_releases")
            ELSE DhGoto("f_unfinished") /\ UNCHANGED dresult
       [] dargs.state = "clean" -> DhGoto("c_builds") /\ UNCHANGED dresult
       [] dargs.state = "absent" -> DhGoto("a_delete") /\ UNCHANGED dresult
  /\ dclean' = (IF dargs.state = "clean" THEN fs ELSE dclean)
  /\ UNCHANGED <<fs, clock, dargs, changes, dops, dstart, druns, dprev, ddry, pamVars, junosVars, pkgVars>>

\* check_link(facts['current_path'])
DhCheckLink ==
  /\ dpc = "p_check"
  /\ IF fs.current.kind \in {"file", "dir"}
     THEN DhFail("not_a_link")
     ELSE DhGoto("p_project") /\ UNCHANGED dresult
  /\ UNCHANGED <<fs, clock, dargs, changes, dops, dstart, dclean, druns, dprev, ddry, pamVars, junosVars, pkgVars>>

\* create_path(path) for the project, releases and shared paths: kind is the
\* entry at the path, made is the tree once os.makedirs(path) has run
CreatePath(kind, made, next) ==
  IF kind = "absent"
  THEN /\ IF dargs.check_mode
          THEN UNCHANGED <<fs, dops>>
          ELSE fs' = made /\ dops' = dops \cup {"makedirs"}
       /\ changes' = changes + CreatedCount
       /\ DhGoto(next) /\ UNCHANGED dresult
  ELSE IF kind # "dir"
  THEN DhFail("not_a_directory") /\ UNCHANGED <<fs, dops, changes>>
  ELSE /\ changes' = changes + (IF SetDirectoryAttributesIfDifferent(FALSE) THEN 1 ELSE 0)
       /\ DhGoto(next) /\ UNCHANGED <<fs, dops, dresult>>

DhCreateProject ==
  /\ dpc = "p_project"
  /\ CreatePath(fs.project, [fs EXCEPT !.project = "dir"], "p_releases")
  /\ UNCHANGED <<clock, dargs, dstart, dclean, druns, dprev, ddry, pamVars, junosVars, pkgVars>>

\* the entry at a path below the project path, which is absent with its parent
Below(kind) == IF fs.project = "dir" THEN kind ELSE "absent"

DhCreateReleases ==
  /\ dpc = "p_releases"
  /\ CreatePath(Below(fs.releases),
                [fs EXCEPT !.project = "dir", !.releases = "dir"], "p_shared")
  /\ UNCHANGED <<clock, dargs, dstart, dclean, druns, dprev, ddry, pamVars, junosVars, pkgVars>>

DhCreateShared ==
  /\ dpc = "p_shared"
  /\ CreatePath(Below(fs.shared),
                [fs EXCEPT !.project = "dir", !.shared = "dir"], "exit")
  /\ UNCHANGED <<clock, dargs, dstart, dclean, druns, dprev, ddry, pamVars, junosVars, pkgVars>>

\* remove_unfinished_file(facts['new_release_path']): os.remove of the
\* marker changes the release folder, whose ctime becomes the present
DhRemoveUnfinishedFile ==
  /\ dpc = "f_unfinished"
  /\ LET r == dargs.release IN
     IF fs.rel[r].kind = "dir" /\ fs.rel[r].marker
     THEN /\ changes' = changes + 1
          /\ IF dargs.check_mode
             THEN UNCHANGED <<fs, clock, dops>>
             ELSE /\ fs' = [fs EXCEPT !.rel[r].marker = FALSE, !.rel[r].ctime = clock]
                  /\ clock' = clock + 1
                  /\ dops' = dops \cup {"remove"}
     ELSE UNCHANGED <<fs, clock, dops, changes>>
  /\ DhGoto("f_unlink")
  /\ UNCHANGED <<dargs, dresult, dstart, dclean, druns, dprev, ddry, pamVars, junosVars, pkgVars>>

\* create_link, first half: if os.path.islink(link_name): os.unlink(link_name)
DhUnlinkForgotten ==
  /\ dpc = "f_unlink"
  /\ IF dargs.check_mode
     THEN DhGoto("f_linked") /\ UNCHANGED <<fs, dops>>
     ELSE DhGoto("f_symlink") /\ UNCHANGED <<fs, dops>>
  /\ UNCHANGED <<clock, dargs, changes, dresult, dstart, dclean, druns, dprev, ddry, pamVars, junosVars, pkgVars>>
DhUnlink ==
  /\ dpc = "f_unlink"
  /\ IF dargs.check_mode
     THEN DhGoto("f_linked") /\ UNCHANGED <<fs, dops>>
     ELSE /\ DhGoto("f_symlink")
          /\ IF fs.current.kind = "link"
             THEN fs' = [fs EXCEPT !.current = NoLink] /\ dops' = dops \cup {"unlink"}
             ELSE UNCHANGED <<fs, dops>>
  /\ UNCHANGED <<clock, dargs, changes, dresult, dstart, dclean, druns, dprev, ddry, pamVars, junosVars, pkgVars>>

\* create_link, second half: os.symlink(source, link_name), which raises
\* when link_name exists or its folder does not
DhSymlink ==
  /\ dpc = "f_symlink"
  /\ IF fs.project # "dir" \/ fs.current.kind # "absent"
     THEN DhRaise("oserror_symlink") /\ UNCHANGED <<fs, dops>>
     ELSE /\ fs' = [fs EXCEPT !.current = [kind |-> "link", target |-> dargs.release]]
          /\ dops' = dops \cup {"symlink"}
          /\ DhGoto("f_linked") /\ UNCHANGED dresult
  /\ UNCHANGED <<clock, dargs, changes, dstart, dclean, druns, dprev, ddry, pamVars, junosVars, pkgVars>>

\* create_link returns True; then the clean option is looked at
DhLinked ==
  /\ dpc = "f_linked"
  /\ changes' = changes + 1
  /\ DhGoto(IF dargs.clean THEN "c_builds" ELSE "exit")
  /\ dclean' = fs
  /\ UNCHANGED <<fs, clock, dargs, dresult, dops, dstart, druns, dprev, ddry, pamVars, junosVars, pkgVars>>

\* remove_unfinished_builds(facts['releases_path'])
DhRemoveUnfinishedBuilds ==
  /\ dpc = "c_builds"
  /\ IF Below(fs.releases) # "dir"
     THEN DhRaise("oserror_listdir") /\ UNCHANGED <<fs, dops, changes>>
     ELSE LET U == UnfinishedBuilds(fs) IN
          /\ changes' = changes + Cardinality(U)
          /\ IF dargs.check_mode \/ U = {}
             THEN UNCHANGED <<fs, dops>>
             ELSE /\ fs' = [fs EXCEPT !.rel = [r \in Releases |->
                                                 IF r \in U THEN NoEntry ELSE @[r]]]
                  /\ dops' = dops \cup {"rmtree"}
          /\ DhGoto("c_cleanup") /\ UNCHANGED dresult
  /\ UNCHANGED <<clock, dargs, dstart, dclean, druns, dprev, ddry, pamVars, junosVars, pkgVars>>

\* cleanup(facts['releases_path'])
DhCleanup ==
  /\ dpc = "c_cleanup"
  /\ LET releases == SortByCtimeDesc(fs, ReleaseDirs(fs))
         doomed == Range(SliceFrom(releases, dargs.keep_releases))
     IN IF dargs.check_mode
        THEN /\ changes' = changes + (IF Len(releases) > dargs.keep_releases
                                      THEN Len(releases) - dargs.keep_releases ELSE 0)
             /\ UNCHANGED <<fs, dops>>
        ELSE /\ changes' = changes + Cardinality(doomed)
             /\ IF doomed = {}
                THEN UNCHANGED <<fs, dops>>
                ELSE /\ fs' = [fs EXCEPT !.rel = [r \in Releases |->
                                                    IF r \in doomed THEN NoEntry ELSE @[r]]]
                     /\ dops' = dops \cup {"rmtree"}
  /\ DhGoto("exit")
  /\ UNCHANGED <<clock, dargs, dresult, dstart, dclean, druns, dprev, ddry, pamVars, junosVars, pkgVars>>

\* delete_path(facts['project_path'])
DhDeleteProject ==
  /\ dpc = "a_delete"
  /\ IF fs.project = "absent"
     THEN DhGoto("exit") /\ UNCHANGED <<fs, dops, changes, dresult>>
     ELSE IF fs.project # "dir"
     THEN DhFail("not_a_directory") /\ UNCHANGED <<fs, dops, changes>>
     ELSE /\ IF dargs.check_mode
             THEN UNCHANGED <<fs, dops>>
             ELSE fs' = EmptyFs /\ dops' = dops \cup {"rmtree"}
          /\ changes' = changes + 1
          /\ DhGoto("exit") /\ UNCHANGED dresult
  /\ UNCHANGED <<clock, dargs, dstart, dclean, druns, dprev, ddry, pamVars, junosVars, pkgVars>>

\* result['ansible_facts'] as the branch of the state sets it: the facts of
\* gather_facts, the empty list, or no such key
AnsibleFacts(state) ==
  CASE state \in {"query", "present"} -> "deploy_helper"
    [] state = "absent" -> "destroyed"
    [] OTHER -> "none"

\* result['changed'] and module.exit_json
DhExit ==
  /\ dpc = "exit"
  /\ dpc' = "done"
  /\ dresult' = [changed |-> changes > 0, msg |-> "ok", facts |-> AnsibleFacts(dargs.state)]
  /\ UNCHANGED <<fs, clock, dargs, changes, dops, dstart, dclean, druns, dprev, ddry, pamVars, junosVars, pkgVars>>

NoResult == [changed |-> FALSE, msg |-> "none", facts |-> "none"]

NoDhPrev == [has |-> FALSE, changed |-> FALSE, fs |-> EmptyFs]

NoDry == [has |-> FALSE, changed |-> FALSE]

\* the same task is run again after a successful run
DhRerun ==
  /\ dpc = "done"
  /\ druns < MaxRuns
  /\ dprev' = [has |-> TRUE, changed |-> dresult.changed, fs |-> fs]
  /\ druns' = druns + 1
  /\ dpc' = "start"
  /\ changes' = 0
  /\ dresult' = NoResult
  /\ dops' = {}
  /\ dstart' = fs
  /\ dclean' = fs
  /\ UNCHANGED <<fs, clock, dargs, ddry, pamVars, junosVars, pkgVars>>

\* the task of a finished check-mode run is run again without check mode
DhRunForReal ==
  /\ dpc = "done"
  /\ druns < MaxRuns
  /\ dargs.check_mode
  /\ ddry' = [has |-> TRUE, changed |-> dresult.changed]
  /\ dargs' = [dargs EXCEPT !.check_mode = FALSE]
  /\ dprev' = NoDhPrev
  /\ druns' = druns + 1
  /\ dpc' = "start"
  /\ changes' = 0
  /\ dresult' = NoResult
  /\ dops' = {}
  /\ dstart' = fs
  /\ dclean' = fs
  /\ UNCHANGED <<fs, clock, pamVars, junosVars, pkgVars>>

(* inputs *)
KeepValues == {-1, 0, 1, 2}

DhArgs ==
  { [state |-> "finalize", release |-> r, keep_releases |-> k, clean |-> c, check_mode |-> m] :
      r \in Releases \cup {NoRelease}, k \in KeepValues \ {-1}, c \in BOOLEAN, m \in BOOLEAN }
  \cup
  { [state |-> "clean", release |-> r, keep_releases |-> k, clean |-> TRUE, check_mode |-> m] :
      r \in {NoRelease, 1}, k \in KeepValues, m \in BOOLEAN }
  \cup
  { [state |-> st, release |-> r, keep_releases |-> 5, clean |-> TRUE, check_mode |-> m] :
      st \in {"present", "absent", "query"}, r \in {NoRelease, 1}, m \in BOOLEAN }

\* a release folder made at Born(r) and, when touched, changed after all were made
Entries(r) ==
  { [kind |-> "dir", marker |-> mk, ctime |-> t] :
      mk \in BOOLEAN, t \in {Born(r)} \cup (IF r = 1 THEN {NRel + 1} ELSE {}) }
  \cup {NoEntry}
  \cup (IF r = 1 THEN {[kind |-> "file", marker |-> FALSE, ctime |-> Born(r)]} ELSE {})

Links ==
  {NoLink, [kind |-> "file", target |-> NoRelease],
   [kind |-> "link", target |-> 1], [kind |-> "link", target |-> 2]}

\* trees a deployment host can show: no project, a file in its place, a
\* project without or with a releases folder
DhTrees ==
  {EmptyFs, [EmptyFs EXCEPT !.project = "file"]}
  \cup { [EmptyFs EXCEPT !.project = "dir", !.releases = k, !.shared = sh, !.current = l] :
           k \in {"absent", "file"}, sh \in {"absent", "dir", "file"}, l \in Links }
  \cup { [project |-> "dir", releases |-> "dir", shared |-> "dir", current |-> l, rel |-> rl] :
           l \in Links, rl \in {f \in [Releases -> UNION {Entries(r) : r \in Releases}] :
                                  \A r \in Releases : f[r] \in Entries(r)} }


(* --------------------------- junos_template ---------------------------- *)
MaxStmts == 2

\* ' '.join(words)
RECURSIVE Join(_)
Join(words) ==
  IF Len(words) = 0 THEN <<>>
  ELSE IF Len(words) = 1 THEN words[1]
  ELSE words[1] \o <<" ">> \o Join(Tail(words))

\* the text of a configuration line: the line without braces, semicolon and
\* the white space around it
LineText(raw) == Strip(SelectSeq(raw, LAMBDA c : c \notin {"{", "}", ";"}))

EndsWith(raw, c) == Len(raw) > 0 /\ raw[Len(raw)] = c

\* module.parse_config(text): one item per line that carries text, with the
\* labels of the sections open around the line as its parents
RECURSIVE ParseFrom(_, _)
ParseFrom(lines, open) ==
  IF Len(lines) = 0 THEN <<>>
  ELSE LET raw == Head(lines)
           text == LineText(raw)
           item == [raw |-> raw, text |-> text, parents |-> open]
       IN IF Len(text) = 0
          THEN ParseFrom(Tail(lines),
                         IF EndsWith(raw, "}") /\ Len(open) > 0
                         THEN SubSeq(open, 1, Len(open) - 1) ELSE open)
          ELSE <<item>> \o ParseFrom(Tail(lines),
                                     IF EndsWith(raw, "{") THEN Append(open, text) ELSE open)

ParseConfig(text) == ParseFrom(text, <<>>)

\* to_lines(config) without the test of item.raw
RECURSIVE ToLinesAll(_)
ToLinesAll(items) ==
  IF Len(items) = 0 THEN <<>>
  ELSE <<Join(Append(Head(items).parents, Head(items).text))>> \o ToLinesAll(Tail(items))

\* to_lines(config)
RECURSIVE ToLines(_)
ToLines(items) ==
  IF Len(items) = 0 THEN <<>>
  ELSE LET item == Head(items)
       IN (IF EndsWith(item.raw, ";")
           THEN <<Join(Append(item.parents, item.text))>>
           ELSE <<>>) \o ToLines(Tail(items))

\* params['config'] when the task does not give it (None)
NoConfig == [given |-> FALSE, text |-> <<>>]

\* bool(params['config']): None and the empty text are false
Truthy(c) == c.given /\ c.text # <<>>

\* get_config(module)
GetConfig(a, dev) ==
  LET cfg == IF Truthy(a.config) THEN a.config.text ELSE <<>>
  IN IF cfg = <<>> /\ ~a.force THEN dev ELSE cfg

\* 'set %s' % item
SetCommand(item) == <<"s", "e", "t", " ">> \o item

\* the loop of main with the test 'item not in config' left out
RECURSIVE CandidateAll(_, _)
CandidateAll(cmds, cfg) ==
  IF Len(cmds) = 0 THEN <<>>
  ELSE <<SetCommand(Head(cmds))>> \o CandidateAll(Tail(cmds), cfg)

\* the loop of main that fills candidate
RECURSIVE Candidate(_, _)
Candidate(cmds, cfg) ==
  IF Len(cmds) = 0 THEN <<>>
  ELSE (IF \E i \in 1..Len(cfg) : cfg[i] = Head(cmds)
        THEN <<>> ELSE <<SetCommand(Head(cmds))>>) \o Candidate(Tail(cmds), cfg)

\* the line a set command leaves in the running configuration
RECURSIVE Loaded(_)
Loaded(cmds) ==
  IF Len(cmds) = 0 THEN <<>>
  ELSE <<SubSeq(Head(cmds), 5, Len(Head(cmds))) \o <<";">>>> \o Loaded(Tail(cmds))

\* module.configure(candidate): the commands are loaded and committed
Configure(cmds) ==
  /\ pushed' = Append(pushed, cmds)
  /\ device' = device \o Loaded(cmds)

NoJResult == [changed |-> FALSE, updates |-> <<>>, backup |-> <<>>]

NoJDry == [has |-> FALSE, changed |-> FALSE, updates |-> <<>>]

\* parsed = module.parse_config(module.params['src']); commands = to_lines(parsed)
JParseSrc ==
  /\ jpc = "start"
  /\ commands' = ToLines(ParseConfig(jargs.src))
  /\ jresult' = NoJResult
  /\ jpc' = "get_config"
  /\ UNCHANGED <<device, jargs, config, candidate, pushed, jdry, pamVars, dhVars, pkgVars>>

\* contents = get_config(module); result['_backup'] = module.config;
\* parsed = module.parse_config(contents); config = to_lines(parsed)
JGetConfig ==
  /\ jpc = "get_config"
  /\ config' = ToLines(ParseConfig(GetConfig(jargs, device)))
  /\ jresult' = [jresult EXCEPT !.backup = device]
  /\ jpc' = "diff"
  /\ UNCHANGED <<device, jargs, commands, candidate, pushed, jdry, pamVars, dhVars, pkgVars>>

\* candidate = list(); for item in commands: ...
JDiff ==
  /\ jpc = "diff"
  /\ candidate' = Candidate(commands, config)
  /\ jpc' = "apply"
  /\ UNCHANGED <<device, jargs, commands, config, jresult, pushed, jdry,
                 pamVars, dhVars, pkgVars>>

\* if candidate: ... with check mode not looked at
JApplyAlways ==
  /\ jpc = "apply"
  /\ IF candidate # <<>>
     THEN /\ Configure(candidate)
          /\ jresult' = [jresult EXCEPT !.changed = TRUE]
     ELSE UNCHANGED <<device, pushed, jresult>>
  /\ jpc' = "exit"
  /\ UNCHANGED <<jargs, commands, config, candidate, jdry, pamVars, dhVars, pkgVars>>

\* if candidate: if not module.check_mode: module.configure(candidate);
\* result['changed'] = True
JApply ==
  /\ jpc = "apply"
  /\ IF candidate # <<>>
     THEN /\ IF ~jargs.check_mode
             THEN Configure(candidate)
             ELSE UNCHANGED <<device, pushed>>
          /\ jresult' = [jresult EXCEPT !.changed = TRUE]
     ELSE UNCHANGED <<device, pushed, jresult>>
  /\ jpc' = "exit"
  /\ UNCHANGED <<jargs, commands, config, candidate, jdry, pamVars, dhVars, pkgVars>>

\* result['updates'] = candidate; module.exit_json(**result)
JExit ==
  /\ jpc = "exit"
  /\ jresult' = [jresult EXCEPT !.updates = candidate]
  /\ jpc' = "done"
  /\ UNCHANGED <<device, jargs, commands, config, candidate, pushed, jdry,
                 pamVars, dhVars, pkgVars>>

\* the task of a finished check-mode run is run again without check mode
JRunForReal ==
  /\ jpc = "done"
  /\ jargs.check_mode
  /\ jdry' = [has |-> TRUE, changed |-> jresult.changed, updates |-> jresult.updates]
  /\ jargs' = [jargs EXCEPT !.check_mode = FALSE]
  /\ jpc' = "start"
  /\ commands' = <<>>
  /\ config' = <<>>
  /\ candidate' = <<>>
  /\ jresult' = NoJResult
  /\ pushed' = <<>>
  /\ UNCHANGED <<device, pamVars, dhVars, pkgVars>>

(* inputs *)
\* configuration texts as lines: a leaf in a section, the same words as a
\* leaf in a section of a section, and a leaf at the top
Block1 == << <<"a", " ", "{">>, <<" ", "b", " ", "c", ";">>, <<"}">> >>
Block2 == << <<"a", " ", "{">>, <<" ", "b", " ", "{">>, <<" ", " ", "c", ";">>,
             <<" ", "}">>, <<"}">> >>
Block3 == << <<"c", ";">> >>
Blocks == {Block1, Block2, Block3}

RECURSIVE Texts(_)
Texts(n) ==
  IF n = 0 THEN {<<>>}
  ELSE Texts(n - 1) \cup {t \o b : t \in Texts(n - 1), b \in Blocks}

JConfigs == {NoConfig} \cup {[given |-> TRUE, text |-> t] : t \in Texts(1)}

\* config excludes force and backup (mutually_exclusive)
JArgs ==
  { a \in [src : Texts(MaxStmts), force : BOOLEAN, backup : {FALSE},
           config : JConfigs, check_mode : BOOLEAN] : ~(a.config.given /\ a.force) }

(* -------------------------------- pkg5 --------------------------------- *)
MaxNames == 2

Packages == {"vim", "git"}

\* the exit status of 'pkg list -- package': 0 when the package is installed
PkgList(img, p) == IF img[p] # "no" THEN 0 ELSE 1

\* the exit status of 'pkg list -u -- package': 0 when the package is
\* installed and a newer version is known, 1 when no such package is listed
PkgListU(img, p) == IF img[p] = "old" THEN 0 ELSE 1

\* is_installed(module, package)
IsInstalled(img, p) == PkgList(img, p) = 0

\* is_latest(module, package)
IsLatest(img, p) == PkgListU(img, p) = 1

\* behaviour[state]['filter'] with every package kept
FilterAll(state, img, p) == TRUE

\* behaviour[state]['filter']
Filter(state, img, p) ==
  CASE state = "present" -> ~IsInstalled(img, p)
    [] state = "latest" -> ~IsLatest(img, p)
    [] state = "absent" -> IsInstalled(img, p)

\* behaviour[state]['subcommand']
Subcommand(state) == IF state = "absent" THEN "uninstall" ELSE "install"

\* the image after a successful 'pkg install' or 'pkg uninstall' of pkgs
Modified(img, sub, pkgs) ==
  [p \in Packages |->
     IF \E i \in 1..Len(pkgs) : pkgs[i] = p
     THEN (IF sub = "install" THEN "latest" ELSE "no")
     ELSE img[p]]

NoResponse == [changed |-> FALSE, rc |-> 0]

NoPkgPrev == [has |-> FALSE, changed |-> FALSE]

\* main: the dispatch on params['state']
PkgMain ==
  /\ kpc = "start"
  /\ kstate' = (IF kargs.state \in {"present", "installed"} THEN "present"
                ELSE IF kargs.state \in {"latest"} THEN "latest"
                ELSE "absent")
  /\ kpc' = "ensure"
  /\ UNCHANGED <<installed, kargs, to_modify, response, cmdlog, kstart, kruns, kprev,
                 pamVars, dhVars, junosVars>>

\* ensure: to_modify = filter(behaviour[state]['filter'], packages)
PkgFilter ==
  /\ kpc = "ensure"
  /\ to_modify' = SelectSeq(kargs.name, LAMBDA p : Filter(kstate, installed, p))
  /\ response' = NoResponse
  /\ kpc' = (IF to_modify' # <<>> THEN "run" ELSE "exit")
  /\ UNCHANGED <<installed, kargs, kstate, cmdlog, kstart, kruns, kprev,
                 pamVars, dhVars, junosVars>>

\* module.run_command(['pkg', subcommand, '-q', '--'] + to_modify) with rc 0
PkgRunOk ==
  /\ kpc = "run"
  /\ cmdlog' = Append(cmdlog, [sub |-> Subcommand(kstate), pkgs |-> to_modify])
  /\ installed' = Modified(installed, Subcommand(kstate), to_modify)
  /\ response' = [changed |-> TRUE, rc |-> 0]
  /\ kpc' = "exit"
  /\ UNCHANGED <<kargs, kstate, to_modify, kstart, kruns, kprev, pamVars, dhVars, junosVars>>

\* the same with a non-zero rc: module.fail_json(**response)
PkgRunFail ==
  /\ kpc = "run"
  /\ cmdlog' = Append(cmdlog, [sub |-> Subcommand(kstate), pkgs |-> to_modify])
  /\ response' = [changed |-> TRUE, rc |-> 1]
  /\ kpc' = "failed"
  /\ UNCHANGED <<installed, kargs, kstate, to_modify, kstart, kruns, kprev,
                 pamVars, dhVars, junosVars>>

\* module.exit_json(**response)
PkgExit ==
  /\ kpc = "exit"
  /\ kpc' = "done"
  /\ UNCHANGED <<installed, kargs, kstate, to_modify, response, cmdlog, kstart, kruns,
                 kprev, pamVars, dhVars, junosVars>>

\* the same task is run again after a successful run
PkgRerun ==
  /\ kpc = "done"
  /\ kruns < MaxRuns
  /\ kprev' = [has |-> TRUE, changed |-> response.changed]
  /\ kruns' = kruns + 1
  /\ kpc' = "start"
  /\ to_modify' = <<>>
  /\ response' = NoResponse
  /\ cmdlog' = <<>>
  /\ kstart' = installed
  /\ UNCHANGED <<installed, kargs, kstate, pamVars, dhVars, junosVars>>

(* inputs *)
PkgStateChoices == {"present", "installed", "latest", "absent", "uninstalled", "removed"}

RECURSIVE NameLists(_)
NameLists(n) ==
  IF n = 0 THEN {<<>>}
  ELSE NameLists(n - 1) \cup {Append(l, p) : l \in NameLists(n - 1), p \in Packages}

PkgArgs ==
  { [name |-> l, state |-> st] : l \in NameLists(MaxNames) \ {<<>>}, st \in PkgStateChoices }

Images == [Packages -> {"no", "old", "latest"}]

JunosIdle ==
  /\ device = <<>>
  /\ jargs = [src |-> <<>>, force |-> FALSE, backup |-> FALSE, config |-> NoConfig,
              check_mode |-> FALSE]
  /\ jpc = "off"
  /\ commands = <<>>
  /\ config = <<>>
  /\ candidate = <<>>
  /\ jresult = NoJResult
  /\ pushed = <<>>
  /\ jdry = NoJDry

PkgIdle ==
  /\ installed = [p \in Packages |-> "no"]
  /\ kargs = [name |-> <<>>, state |-> "present"]
  /\ kpc = "off"
  /\ kstate = "present"
  /\ to_modify = <<>>
  /\ response = NoResponse
  /\ cmdlog = <<>>
  /\ kstart = [p \in Packages |-> "no"]
  /\ kruns = 1
  /\ kprev = NoPkgPrev

DhIdle ==
  /\ fs = EmptyFs
  /\ clock = 0
  /\ dargs = [state |-> "query", release |-> NoRelease, keep_releases |-> 5, clean |-> TRUE,
              check_mode |-> FALSE]
  /\ dpc = "off"
  /\ changes = 0
  /\ dresult = NoResult
  /\ dops = {}
  /\ dstart = EmptyFs
  /\ dclean = EmptyFs
  /\ druns = 1
  /\ dprev = NoDhPrev
  /\ ddry = NoDry

PamIdle ==
  /\ confState = "missing"
  /\ conf = <<>>
  /\ bak = <<>>
  /\ pargs = [p \in PamProcs |-> [domain |-> A_domain, limit_type |-> A_type,
                                  limit_item |-> A_item, value |-> <<"5">>,
                                  use_max |-> FALSE, use_min |-> FALSE, backup |-> FALSE]]
  /\ new_value = [p \in PamProcs |-> PyStr(<<"5">>)]
  /\ ppc = [p \in PamProcs |-> "off"]
  /\ fin = [p \in PamProcs |-> <<>>]
  /\ nf = [p \in PamProcs |-> <<>>]
  /\ found = [p \in PamProcs |-> FALSE]
  /\ changed = [p \in PamProcs |-> FALSE]
  /\ presult = [p \in PamProcs |-> "none"]
  /\ accessed = [p \in PamProcs |-> {}]
  /\ orig = [p \in PamProcs |-> <<>>]
  /\ runs = [p \in PamProcs |-> 1]
  /\ prev = [p \in PamProcs |-> NoPrev]
  /\ backup_file = [p \in PamProcs |-> NoBackupFile]
  /\ res_args = [p \in PamProcs |-> NoResArgs]
  /\ seen = [p \in PamProcs |-> <<>>]

InitDh ==
  /\ PamIdle
  /\ JunosIdle
  /\ PkgIdle
  /\ fs \in DhTrees
  /\ clock = NRel + 2
  /\ dargs \in DhArgs
  /\ dpc = "start"
  /\ changes = 0
  /\ dresult = NoResult
  /\ dops = {}
  /\ dstart = fs
  /\ dclean = fs
  /\ druns = 1
  /\ dprev = NoDhPrev
  /\ ddry = NoDry

NextDh ==
  \/ DhStart
  \/ DhCheckLink
  \/ DhCreateProject
  \/ DhCreateReleases
  \/ DhCreateShared
  \/ DhRemoveUnfinishedFile
  \/ DhUnlink
  \/ DhSymlink
  \/ DhLinked
  \/ DhRemoveUnfinishedBuilds
  \/ DhCleanup
  \/ DhDeleteProject
  \/ DhExit
  \/ DhRerun
  \/ DhRunForReal

SpecDh == InitDh /\ [][NextDh]_vars

InitJunos ==
  /\ PamIdle
  /\ DhIdle
  /\ PkgIdle
  /\ device \in Texts(MaxStmts)
  /\ jargs \in JArgs
  /\ jpc = "start"
  /\ commands = <<>>
  /\ config = <<>>
  /\ candidate = <<>>
  /\ jresult = NoJResult
  /\ pushed = <<>>
  /\ jdry = NoJDry

NextJunos ==
  \/ JParseSrc
  \/ JGetConfig
  \/ JDiff
  \/ JApply
  \/ JExit
  \/ JRunForReal

SpecJunos == InitJunos /\ [][NextJunos]_vars

InitPkg ==
  /\ PamIdle
  /\ DhIdle
  /\ JunosIdle
  /\ installed \in Images
  /\ kargs \in PkgArgs
  /\ kpc = "start"
  /\ kstate = "present"
  /\ to_modify = <<>>
  /\ response = NoResponse
  /\ cmdlog = <<>>
  /\ kstart = installed
  /\ kruns = 1
  /\ kprev = NoPkgPrev

NextPkg ==
  \/ PkgMain
  \/ PkgFilter
  \/ PkgRunOk
  \/ PkgRunFail
  \/ PkgExit
  \/ PkgRerun

SpecPkg == InitPkg /\ [][NextPkg]_vars


InitPam ==
  /\ DhIdle
  /\ JunosIdle
  /\ PkgIdle
  /\ confState \in {"ok", "ro", "missing"}
  /\ conf \in (IF confState = "ok" THEN PamFiles ELSE {<<>>})
  /\ bak = <<>>
  /\ \E a \in PamArgs :
       /\ pargs = [p \in PamProcs |-> a]
       /\ new_value = [p \in PamProcs |-> PyStr(a.value)]
  /\ ppc = [p \in PamProcs |-> IF p = 1 THEN "start" ELSE "off"]
  /\ fin = [p \in PamProcs |-> <<>>]
  /\ nf = [p \in PamProcs |-> <<>>]
  /\ found = [p \in PamProcs |-> FALSE]
  /\ changed = [p \in PamProcs |-> FALSE]
  /\ presult = [p \in PamProcs |-> "none"]
  /\ accessed = [p \in PamProcs |-> {}]
  /\ orig = [p \in PamProcs |-> conf]
  /\ runs = [p \in PamProcs |-> 1]
  /\ prev = [p \in PamProcs |-> NoPrev]
  /\ backup_file = [p \in PamProcs |-> NoBackupFile]
  /\ res_args = [p \in PamProcs |-> NoResArgs]
  /\ seen = [p \in PamProcs |-> <<>>]

NextPam ==
  \E p \in PamProcs :
    \/ PamProbe(p)
    \/ PamValidate(p)
    \/ PamBackup(p)
    \/ PamOpen(p)
    \/ PamLine(p)
    \/ PamFinish(p)
    \/ PamMove(p)
    \/ PamCrash(p)
    \/ PamRerun(p)

SpecPam == InitPam /\ [][NextPam]_vars

\* two invocations of main on the same limits file, each run once, their
\* steps interleaved as the scheduler of the host lets them
InitPamPair ==
  /\ DhIdle
  /\ JunosIdle
  /\ PkgIdle
  /\ confState = "ok"
  /\ conf \in PairFiles
  /\ bak = <<>>
  /\ pargs \in PairArgs
  /\ new_value = [p \in PamProcs |-> PyStr(pargs[p].value)]
  /\ ppc = [p \in PamProcs |-> "start"]
  /\ fin = [p \in PamProcs |-> <<>>]
  /\ nf = [p \in PamProcs |-> <<>>]
  /\ found = [p \in PamProcs |-> FALSE]
  /\ changed = [p \in PamProcs |-> FALSE]
  /\ presult = [p \in PamProcs |-> "none"]
  /\ accessed = [p \in PamProcs |-> {}]
  /\ orig = [p \in PamProcs |-> conf]
  /\ runs = [p \in PamProcs |-> 1]
  /\ prev = [p \in PamProcs |-> NoPrev]
  /\ backup_file = [p \in PamProcs |-> NoBackupFile]
  /\ res_args = [p \in PamProcs |-> NoResArgs]
  /\ seen = [p \in PamProcs |-> <<>>]

NextPamPair ==
  \E p \in PamProcs :
    \/ PamProbe(p)
    \/ PamValidate(p)
    \/ PamBackup(p)
    \/ PamOpen(p)
    \/ PamLine(p)
    \/ PamFinish(p)
    \/ PamMove(p)

SpecPamPair == InitPamPair /\ [][NextPamPair]_vars

(* ------------------------- pam_limits: claims -------------------------- *)
\* the fields of a line as limits.conf(5) reads them
StmtFields(line) == Split(Strip(SubSpace(line)))

\* a recognized statement: not a comment, exactly 4 fields
IsStmt(line) == line[1] # "#" /\ Len(StmtFields(line)) = 4

\* a recognized statement for the key of the arguments
IsTargetLine(a, line) ==
  /\ IsStmt(line)
  /\ StmtFields(line)[1] = a.domain
  /\ StmtFields(line)[2] = a.limit_type
  /\ StmtFields(line)[3] = a.limit_item

CurValue(line) == StmtFields(line)[4]

IsSentinel(v) == v \in {Unlimited, Infinity, MinusOne}

BothNumeric(d, c) == IsDigit(d) /\ IsDigit(c)

\* the cases in which the policy keeps the value the file has
Retains(a, c) ==
  LET d == a.value IN
  \/ a.use_max /\ ~a.use_min /\ BothNumeric(d, c) /\ ParseInt(d) <= ParseInt(c)
  \/ a.use_max /\ ~a.use_min /\ IsSentinel(c)
  \/ a.use_min /\ ~a.use_max /\ BothNumeric(d, c) /\ ParseInt(d) >= ParseInt(c)
  \/ a.use_min /\ ~a.use_max /\ IsSentinel(d)

\* C1 (as claimed): a finished run whose target key exists and whose policy
\* retains the current value of every target line reports changed=false and
\* leaves the file content as it was.
C1_RetainedUnchanged ==
  \A p \in PamProcs :
    LET ol == FileLines(orig[p]) IN
    (/\ ppc[p] = "done"
     /\ \E i \in 1..Len(ol) : IsTargetLine(pargs[p], ol[i])
     /\ \A i \in 1..Len(ol) :
          IsTargetLine(pargs[p], ol[i]) => Retains(pargs[p], CurValue(ol[i])))
    => (~changed[p] /\ conf = orig[p])

\* C2 (as claimed): a second run with the same arguments right after a
\* successful first run reports changed=false and leaves the file
\* byte-identical to the result of the first run.
C2_Idempotent ==
  \A p \in PamProcs :
    (ppc[p] = "done" /\ prev[p].has) => (~changed[p] /\ conf = prev[p].conf)

\* the reconcile function of the specification
RefReconcile(d, c, mx, mn) ==
  IF d = c THEN c
  ELSE IF mx THEN (IF BothNumeric(d, c) THEN Str(Max(ParseInt(d), ParseInt(c)))
                   ELSE IF IsSentinel(c) THEN c ELSE d)
  ELSE IF mn THEN (IF BothNumeric(d, c) THEN Str(Min(ParseInt(d), ParseInt(c)))
                   ELSE IF IsSentinel(d) THEN c ELSE d)
  ELSE d

\* C3: after a finished run, every line that was a statement for the target
\* key is still one, at the same place, and its value is the reference
\* reconcile function of the desired value, the value it had and the policy.
C3_Reconciled ==
  \A p \in PamProcs :
    ppc[p] = "done" =>
      LET ol == FileLines(orig[p])
          nl == FileLines(conf)
          a == pargs[p]
      IN \A i \in 1..Len(ol) :
           IsTargetLine(a, ol[i]) =>
             /\ i <= Len(nl)
             /\ IsTargetLine(a, nl[i])
             /\ CurValue(nl[i]) = RefReconcile(a.value, CurValue(ol[i]), a.use_max, a.use_min)

\* C3 witness: use_min with a sentinel desired value met a numeric current
\* value, and the run finished with the current value kept.
C3_Witness ==
  /\ ppc[1] = "done"
  /\ pargs[1].use_min /\ pargs[1].value = Unlimited
  /\ \E i \in 1..Len(FileLines(orig[1])) :
       /\ IsTargetLine(pargs[1], FileLines(orig[1])[i])
       /\ CurValue(FileLines(orig[1])[i]) = <<"5">>
       /\ CurValue(FileLines(conf)[i]) = <<"5">>

\* the argument sets validation rejects
RefBadArgs(a) == (a.use_max /\ a.use_min) \/ ~(IsSentinel(a.value) \/ IsDigit(a.value))

RECURSIVE IsSubseq(_, _)
IsSubseq(s, t) ==
  IF Len(s) = 0 THEN TRUE
  ELSE IF Len(t) = 0 THEN FALSE
  ELSE IF Head(s) = Head(t) THEN IsSubseq(Tail(s), Tail(t))
  ELSE IsSubseq(s, Tail(t))

\* the lines that are not statements for the target key, in order
NonTarget(a, ls) == SelectSeq(ls, LAMBDA l : ~IsTargetLine(a, l))

\* C5 (as claimed): after a finished run every line of the original file that
\* is not a statement for the target key is a line of the new file,
\* byte-identical and in the same relative order.
C5_NonDestructive ==
  \A p \in PamProcs :
    ppc[p] = "done" =>
      IsSubseq(NonTarget(pargs[p], FileLines(orig[p])), FileLines(conf))

\* C6: while a run has not renamed its scratch file, also when it crashed or
\* failed, the limits file holds the content the run started from; once it
\* has, the file holds the whole scratch content, written from every line of
\* the original.
C6_AtomicApply ==
  \A p \in PamProcs :
    ppc[p] # "off" =>
      /\ ppc[p] # "done" => conf = orig[p]
      /\ ppc[p] = "done" =>
           /\ conf = nf[p]
           /\ fin[p] = <<>>
           /\ Len(FileLines(conf)) >= Len(FileLines(orig[p]))

\* C6 witness: a run crashed after writing part of the scratch file.
C6_Witness ==
  /\ ppc[1] = "crashed"
  /\ nf[1] # <<>>
  /\ fin[1] # <<>>
  /\ conf = orig[1]

\* a file with a statement whose value is not unlimited/infinity/-1/digits
RefCorrupt(data) ==
  LET ls == FileLines(data) IN
  \E i \in 1..Len(ls) :
    LET f == StmtFields(ls[i]) IN
    ls[i][1] # "#" /\ Len(f) = 4 /\ ~(IsSentinel(f[4]) \/ IsDigit(f[4]))

\* C7: a run on a file with a statement of invalid value, target key or not,
\* never gets past its loop (it does not append, rename or succeed) and the
\* limits file keeps its original content.
C7_CorruptFails ==
  \A p \in PamProcs :
    ppc[p] # "off" =>
      \/ /\ conf = orig[p]
         /\ ppc[p] \notin {"move", "done"}
         /\ ~(ppc[p] = "loop" /\ fin[p] = <<>>)
      \/ ~RefCorrupt(orig[p])

\* C7 witness: a run failed on an invalid statement of another key after it
\* had copied earlier lines to the scratch file.
C7_Witness ==
  /\ ppc[1] = "failed"
  /\ presult[1] = "corrupt"
  /\ nf[1] # <<>>
  /\ ~IsTargetLine(pargs[1], Head(fin[1]))
  /\ conf = orig[1]

(* ------------------------ deploy_helper: claims ------------------------ *)
\* the n folders of G created last
RECURSIVE NewestCreated(_, _)
NewestCreated(G, n) ==
  IF n <= 0 \/ G = {} THEN {}
  ELSE LET m == CHOOSE r \in G : \A q \in G : Born(q) <= Born(r)
       IN {m} \cup NewestCreated(G \ {m}, n - 1)

\* a run that cleans for real: state=clean, or finalize with clean=true
Cleans == dargs.state = "clean" \/ (dargs.state = "finalize" /\ dargs.clean)

\* the release folders without the marker when cleaning started
Finished(f) == {r \in Releases : f.rel[r].kind = "dir" /\ ~f.rel[r].marker}

\* C8 (as claimed): after a finished non-check-mode cleaning with
\* keep_releases = N >= 0, no release folder that held the unfinished marker
\* remains, and the remaining release folders are exactly the min(N, count)
\* most recently created of those that did not hold it.
C8_Retention ==
  (dpc = "done" /\ Cleans /\ ~dargs.check_mode /\ dargs.keep_releases >= 0) =>
    /\ UnfinishedBuilds(fs) = {}
    /\ \A r \in UnfinishedBuilds(dclean) : fs.rel[r].kind # "dir"
    /\ ReleaseDirs(fs) =
         NewestCreated(Finished(dclean),
                       Min(dargs.keep_releases, Cardinality(Finished(dclean))))

\* a non-check-mode finalize that found 'current' as a symbolic link
RepointsLink ==
  /\ dpc # "off"
  /\ dargs.state = "finalize"
  /\ ~dargs.check_mode
  /\ dstart.current.kind = "link"

PointsToOldOrNew ==
  /\ fs.current.kind = "link"
  /\ fs.current.target \in {dstart.current.target, dargs.release}

\* C9 (as claimed): in every state of a finalize that found 'current' as a
\* symbolic link, 'current' exists and points to the previous or to the new
\* release, and after the run has succeeded it points to the new release.
C9_AtomicRepoint ==
  RepointsLink =>
    /\ PointsToOldOrNew
    /\ dpc = "done" => fs.current.target = dargs.release

\* C9 (amended): in every state of such a finalize 'current' points to the
\* previous or to the new release, or, only between the unlink and the
\* symlink call, does not exist; the symlink call does not raise, and from
\* its return on, so after a successful run, 'current' points to the new
\* release.
C9_UnlinkThenSymlink ==
  RepointsLink =>
    /\ PointsToOldOrNew \/ (fs.current = NoLink /\ dpc = "f_symlink")
    /\ dresult.msg # "oserror_symlink"
    /\ dpc \in {"f_linked", "c_builds", "c_cleanup", "exit", "done"} =>
         fs.current = [kind |-> "link", target |-> dargs.release]

\* C9 witness: between the two calls, the link to the previous release is
\* gone and the link to the new one is not made yet.
C9_Witness ==
  /\ RepointsLink
  /\ dpc = "f_symlink"
  /\ fs.current = NoLink
  /\ dstart.current.target # dargs.release

\* C10 (as claimed): the same non-check-mode invocation with an explicit
\* release (and no negative keep_releases), run again right after it succeeded, reports changed=false and
\* leaves the tree and 'current' as the first run left them.
C10_Idempotent ==
  (/\ dpc = "done"
   /\ dprev.has
   /\ ~dargs.check_mode
   /\ dargs.release # NoRelease
   /\ dargs.keep_releases >= 0
   /\ dargs.state \in {"present", "finalize", "clean", "absent"})
  => (~dresult.changed /\ fs = dprev.fs)

\* the entry that makes the run of a state refuse: 'current' not a link
\* where the state looks at it, or a file where the state makes or deletes
\* a directory
StructuralError(f, a) ==
  \/ a.state \in {"present", "finalize"} /\ f.current.kind \in {"file", "dir"}
  \/ a.state = "present" /\ "file" \in {f.project, f.releases, f.shared}
  \/ a.state = "absent" /\ f.project = "file"

DhEnded == dpc \in {"done", "failed", "crashed"}

\* C11 (as claimed): a non-check-mode run of present, finalize, clean or
\* absent that started on a tree where 'current' is not a symbolic link, or
\* where a path it makes or deletes as a directory is a file, ends failed
\* and has made no filesystem mutation.
C11_FailBeforeMutate ==
  (DhEnded /\ ~dargs.check_mode /\ StructuralError(dstart, dargs)) =>
    (dpc = "failed" /\ dops = {} /\ fs = dstart)

\* C12 (as claimed): a check-mode run makes no filesystem mutation, and the
\* run without check mode from the same tree (keep_releases not negative)
\* ends with the changed flag the check-mode run reported.
C12_DryRun ==
  /\ (dpc # "off" /\ dargs.check_mode) => (dops = {} /\ fs = dstart)
  /\ (DhEnded /\ ddry.has /\ dargs.keep_releases >= 0) =>
       (dpc = "done" /\ dresult.changed = ddry.changed)

\* C18 (as claimed): no run ends with an error that is not reported through
\* fail_json: every run that has ended has ended in exit_json or fail_json.
C18_StructuredOutcome ==
  DhEnded => dpc \in {"done", "failed"}

\* the positions of main() after lines 136-138
PamPastBackup == {"open", "loop", "move", "done", "crashed"}

\* C19: without the backup option no copy is made; with it, a run that is
\* before line 137 or has failed in the probe or the argument checks has
\* made no copy, and a run past line 138 has made exactly one, of the
\* content the file had when the run started, made when the arguments had
\* passed the checks and the file was not replaced yet; a finished run
\* returns the path of that copy as backup_file.
C19_BackupOrdering ==
  \A p \in PamProcs :
    ppc[p] # "off" =>
      IF ~pargs[p].backup
      THEN bak = <<>> /\ res_args[p].backup_file = NoBackupFile
      ELSE IF ppc[p] \in PamPastBackup \/ (ppc[p] = "failed" /\ presult[p] = "corrupt")
      THEN /\ Len(bak) = runs[p]
           /\ bak[Len(bak)] = orig[p]
           /\ backup_file[p] = Len(bak)
           /\ ArgError(pargs[p]) = "" /\ confState = "ok"
           /\ ppc[p] \in {"open", "loop", "move"} => conf = orig[p]
           /\ ppc[p] = "done" => res_args[p].backup_file = Len(bak)
      ELSE Len(bak) = runs[p] - 1

\* C19 witness: a run with the backup option has replaced the file with
\* other content, the one copy holds the content from before the run and
\* the result names it.
C19_Witness ==
  /\ ppc[1] = "done"
  /\ pargs[1].backup
  /\ bak = <<orig[1]>>
  /\ conf # orig[1]
  /\ res_args[1] = [changed |-> TRUE, backup_file |-> 1]

(* ----------------------- junos_template: claims ------------------------ *)
\* the leaf statements of a configuration text: the items of a line that
\* ends a statement
Leaves(text) == SelectSeq(ParseConfig(text), LAMBDA i : EndsWith(i.raw, ";"))

\* the line of a leaf: its parent labels and its text, space-separated
LineOf(item) == Join(item.parents \o <<item.text>>)

LeafLines(text) == [i \in 1..Len(Leaves(text)) |-> LineOf(Leaves(text)[i])]

\* the lines of want that are not lines of have, in the order of want, each
\* as a set command
Delta(want, have) ==
  LET missing == SelectSeq(LeafLines(want), LAMBDA l : l \notin Range(LeafLines(have)))
  IN [i \in 1..Len(missing) |-> <<"s", "e", "t", " ">> \o missing[i]]

\* a run that compares src with the running configuration of the device
JDefaultBase == ~jargs.force /\ ~jargs.config.given

\* C13: a finished run that compares with the running configuration reports
\* as updates exactly the leaf lines of src that are not leaf lines of the
\* configuration the device had, in the order of src, each behind 'set ';
\* no update is a line the device had, and every update is a set command.
C13_Delta ==
  (jpc = "done" /\ JDefaultBase) =>
    /\ jresult.updates = Delta(jargs.src, jresult.backup)
    /\ \A i \in 1..Len(jresult.updates) :
         LET u == jresult.updates[i] IN
         /\ SubSeq(u, 1, 4) = <<"s", "e", "t", " ">>
         /\ SubSeq(u, 5, Len(u)) \in Range(LeafLines(jargs.src))
         /\ SubSeq(u, 5, Len(u)) \notin Range(LeafLines(jresult.backup))

\* C13 witness: the device had one of two different leaf lines of src, and
\* the finished run reports the other one only.
C13_Witness ==
  /\ jpc = "done"
  /\ JDefaultBase
  /\ Len(LeafLines(jargs.src)) = 2
  /\ LeafLines(jargs.src)[1] # LeafLines(jargs.src)[2]
  /\ Len(jresult.updates) = 1
  /\ jresult.updates[1] = <<"s", "e", "t", " ">> \o LeafLines(jargs.src)[2]

\* C14: module.configure is called only at the apply step, once, with the
\* whole candidate list, exactly when that list is not empty and check mode
\* is off; with an empty list the run reports changed=false; a check-mode
\* run leaves the device as it was, and the run without check mode on the
\* same inputs reports the changed flag and the updates it reported.
C14_PushDiscipline ==
  jpc # "off" =>
    /\ jpc \in {"start", "get_config", "diff", "apply"} => pushed = <<>>
    /\ jpc \in {"exit", "done"} =>
         pushed = (IF candidate # <<>> /\ ~jargs.check_mode THEN <<candidate>> ELSE <<>>)
    /\ jpc = "done" => jresult.changed = (jresult.updates # <<>>)
    /\ (jpc = "done" /\ jargs.check_mode) => device = jresult.backup
    /\ (jpc = "done" /\ jdry.has) =>
         (jresult.changed = jdry.changed /\ jresult.updates = jdry.updates)

\* C14 witness: after a check-mode run that reported updates, the run
\* without check mode reported the same and pushed them in one call.
C14_Witness ==
  /\ jpc = "done"
  /\ jdry.has
  /\ jdry.updates # <<>>
  /\ jresult.updates = jdry.updates
  /\ pushed = <<jresult.updates>>

\* the desired leaf is not among the updates of the finished run
TreatedAsConfigured(d) ==
  \A i \in 1..Len(jresult.updates) : jresult.updates[i] # SetCommand(LineOf(d))

\* C15 (as claimed): a leaf of src is left out of the updates only if the
\* configuration the device had holds a leaf with the same parent chain and
\* the same text.
C15_ExactEquality ==
  (jpc = "done" /\ JDefaultBase) =>
    \A i \in 1..Len(Leaves(jargs.src)) :
      LET d == Leaves(jargs.src)[i] IN
      TreatedAsConfigured(d) =>
        \E j \in 1..Len(Leaves(jresult.backup)) :
          LET c == Leaves(jresult.backup)[j] IN
          c.parents = d.parents /\ c.text = d.text

\* the words of a leaf: those of its parent labels, then those of its text
WordsOf(item) == Split(LineOf(item))

\* C15 (amended): a leaf of src is left out of the updates exactly if the
\* configuration the device had holds a leaf with the same sequence of
\* words, however they are divided between parent chain and text.
C15_SameWords ==
  (jpc = "done" /\ JDefaultBase) =>
    \A i \in 1..Len(Leaves(jargs.src)) :
      LET d == Leaves(jargs.src)[i] IN
      TreatedAsConfigured(d) <=>
        \E j \in 1..Len(Leaves(jresult.backup)) :
          WordsOf(Leaves(jresult.backup)[j]) = WordsOf(d)

\* C15 witness: src has 'b c' under a, the device had 'c' under b under a,
\* and the finished run reports no update.
C15_Witness ==
  /\ jpc = "done"
  /\ JDefaultBase
  /\ jargs.src = Block1
  /\ jresult.backup = Block2
  /\ jresult.updates = <<>>

\* C20 (as claimed): with force and no config, the updates of a finished
\* run are all leaf lines of src, and they are pushed when check mode is
\* off; with config given, the updates are the leaf lines of src that are
\* not leaf lines of the text given.
C20_ForceAndConfig ==
  jpc = "done" =>
    /\ (jargs.force /\ ~jargs.config.given) =>
         /\ jresult.updates = Delta(jargs.src, <<>>)
         /\ (~jargs.check_mode /\ jresult.updates # <<>>) => pushed = <<jresult.updates>>
    /\ jargs.config.given => jresult.updates = Delta(jargs.src, jargs.config.text)

(* ---------------------------- pkg5: claims ----------------------------- *)
\* the task asks for the packages to be there, or to be gone
AsksPresent == kargs.state \in {"present", "installed"}
AsksAbsent == kargs.state \in {"absent", "uninstalled", "removed"}

\* the named packages, in the order given, for which 'pkg list' returned
\* non-zero (present) or zero (absent) on the image the run started on
Wanted ==
  SelectSeq(kargs.name,
            LAMBDA p : IF AsksPresent THEN PkgList(kstart, p) # 0 ELSE PkgList(kstart, p) = 0)

\* C16: a run for present (absent) runs at most one modifying command; once
\* past the filter it has run 'pkg install' ('pkg uninstall') with exactly
\* the wanted packages in the order given, or no command when there is
\* none, and then it reports no change; the same task run again after a
\* successful run runs no modifying command and reports no change.
C16_PresentAbsent ==
  (kpc # "off" /\ (AsksPresent \/ AsksAbsent)) =>
    /\ Len(cmdlog) <= 1
    /\ kpc \in {"exit", "done", "failed"} =>
         cmdlog = (IF Wanted = <<>> THEN <<>>
                   ELSE <<[sub |-> IF AsksPresent THEN "install" ELSE "uninstall",
                           pkgs |-> Wanted]>>)
    /\ kpc = "done" => response.changed = (Wanted # <<>>)
    /\ kprev.has => cmdlog = <<>> /\ ~response.changed

\* C16 witness: the first run for present installed two packages with one
\* command, and the second run has finished with no command run.
C16_Witness ==
  /\ kpc = "done"
  /\ kargs = [name |-> <<"vim", "git">>, state |-> "present"]
  /\ kprev = [has |-> TRUE, changed |-> TRUE]
  /\ installed = [p \in Packages |-> "latest"]
  /\ cmdlog = <<>>
  /\ ~response.changed

\* C17 (as claimed): after a finished run with state=latest every named
\* package is installed at its latest version, and a named package that
\* was not installed was passed to 'pkg install'.
C17_LatestInstalls ==
  (kpc = "done" /\ kargs.state = "latest") =>
    \A i \in 1..Len(kargs.name) :
      LET p == kargs.name[i] IN
      /\ installed[p] = "latest"
      /\ kstart[p] = "no" =>
           \E c \in 1..Len(cmdlog) :
             cmdlog[c].sub = "install" /\ p \in Range(cmdlog[c].pkgs)

(* -------------------- deploy_helper: further claims ------------------- *)
\* C21: a run with state=query, with or without check mode, goes from the
\* dispatch straight to exit_json, makes no filesystem call that mutates
\* and leaves the tree as it found it; finished, it reports changed=false
\* and carries the deploy_helper facts in ansible_facts.
C21_QueryChangesNothing ==
  (dpc # "off" /\ dargs.state = "query") =>
    /\ dops = {}
    /\ fs = dstart
    /\ dpc \in {"start", "exit", "done"}
    /\ dpc = "done" => (~dresult.changed /\ dresult.facts = "deploy_helper")

\* C21 witness: a query on a project with release folders, one of them
\* unfinished, and a 'current' link has finished.
C21_Witness ==
  /\ dpc = "done"
  /\ dargs.state = "query"
  /\ fs.current.kind = "link"
  /\ UnfinishedBuilds(fs) # {}
  /\ dresult = [changed |-> FALSE, msg |-> "ok", facts |-> "deploy_helper"]

\* cleaning has started on a tree whose 'current' link points to a release
\* folder that exists and does not hold the unfinished marker
CleaningWithActive ==
  /\ Cleans
  /\ ~dargs.check_mode
  /\ dargs.keep_releases >= 1
  /\ dpc \in {"c_builds", "c_cleanup", "exit", "done"}
  /\ dclean.current.kind = "link"
  /\ dclean.rel[dclean.current.target].kind = "dir"
  /\ ~dclean.rel[dclean.current.target].marker

\* C25 (as claimed): in a non-check-mode cleaning (keep_releases at least
\* 1) the release folder 'current' pointed to when cleaning started is
\* never deleted.
C25_ActiveReleaseKept ==
  CleaningWithActive => fs.rel[dclean.current.target].kind = "dir"

\* C26 (as claimed): after a finished non-check-mode finalize, 'current' is
\* a link to the named release, whose folder exists and does not hold the
\* unfinished marker.
C26_ValidActiveRelease ==
  (dpc = "done" /\ dargs.state = "finalize" /\ ~dargs.check_mode) =>
    /\ fs.current = [kind |-> "link", target |-> dargs.release]
    /\ fs.rel[dargs.release].kind = "dir"
    /\ ~fs.rel[dargs.release].marker

(* ---------------------- pam_limits: further claims --------------------- *)
\* the line the claim names for a key and a value
TabLine(a, v) ==
  a.domain \o <<"\t">> \o a.limit_type \o <<"\t">> \o a.limit_item \o <<"\t">> \o v \o <<"\n">>

\* the value of the target line must change
MustChange(a, c) == RefReconcile(a.value, c, a.use_max, a.use_min) # c

C24_NoOpIdentical ==
  \A p \in PamProcs :
    (ppc[p] = "done" /\ ~res_args[p].changed) =>
      /\ "write" \in accessed[p]
      /\ nf[p] = seen[p]
      /\ conf = seen[p]

\* C24 witness: a run whose desired value is the value of the one target
\* line has finished with changed=false after the rename.
C24_Witness ==
  /\ ppc[1] = "done"
  /\ ~res_args[1].changed
  /\ \E i \in 1..Len(FileLines(seen[1])) :
       /\ IsTargetLine(pargs[1], FileLines(seen[1])[i])
       /\ CurValue(FileLines(seen[1])[i]) = pargs[1].value
  /\ accessed[1] = {"probe", "read", "write"}
  /\ conf = seen[1]

\* the text t occurs in the text d
Occurs(t, d) ==
  \E i \in 1..(Len(d) - Len(t) + 1) : SubSeq(d, i, i + Len(t) - 1) = t

\* the line a run adds for its key
PairEntry(p) == TabLine(pargs[p], pargs[p].value)

\* both runs read the same bytes, and both ended reporting changed=true
BothReadSame ==
  /\ \A p \in PamProcs : ppc[p] = "done" /\ presult[p] = "ok" /\ res_args[p].changed
  /\ seen[1] = seen[2]

\* C23: when two runs for different keys have read the same content and
\* both have ended with changed=true, the file is the scratch file of one
\* of them: it holds that run's entry and not the entry of the other run.
C23_LostUpdate ==
  BothReadSame =>
    \E w, l \in PamProcs :
      /\ w # l
      /\ conf = nf[w]
      /\ Occurs(PairEntry(w), conf)
      /\ ~Occurs(PairEntry(l), conf)

\* C23 witness: both runs read a file with no statement for either key,
\* both reported changed=true, and the file holds the second run's entry
\* after the bytes both read, with no trace of the first run's entry.
C23_Witness ==
  /\ BothReadSame
  /\ seen[1] = <<"#", "c", "\n">>
  /\ conf = seen[1] \o PairEntry(2)
  /\ nf[1] = seen[1] \o PairEntry(1)

====
